---- MODULE Spec2Model ----
(***************************************************************************)
(* A model of cook_book.py: the recipe-file parser read_cook_book, the     *)
(* shopping-list aggregator get_shop_list_by_dishes and the file merger    *)
(* merge_files.  Text is modelled as sequences of one-character strings,   *)
(* so that strip, split and int are computed and not assumed.              *)
(***************************************************************************)
EXTENDS Integers, Sequences, FiniteSets, TLC

VARIABLES
    \* ---- read_cook_book ----
    source,          \* the catalog the recipe file was generated from (a sequence of recipes)
    file_exists,     \* whether the recipe file exists
    file,            \* the recipe file: its lines, without their line terminators
    pos,             \* index of the next line readline() returns
    pc,              \* position of read_cook_book in its code
    dish_name,       \* local dish_name
    ingredient_count,\* local ingredient_count
    todo,            \* iterations left of "for _ in range(ingredient_count)"
    ingredients,     \* local ingredients
    cook_book,       \* local cook_book
    exc,             \* the exception travelling to the outer handlers
    outcome,         \* "none", "returned", or the exception read_cook_book raised
    result,          \* the returned catalog, NoCatalog before a return
    starts,          \* history: the positions at which a non-empty dish name was read
    \* ---- get_shop_list_by_dishes ----
    objs,            \* the heap: the dict objects of the catalog and of the shopping list
    book,            \* argument cook_book: dish name -> sequence of references to ingredient dicts
    book0,           \* history: the catalog, by value, before the first call
    person_count,    \* argument person_count
    dishes,          \* argument dishes: the elements the loop has iterated over so far
    shop_list,       \* local shop_list: ingredient name -> reference to its entry dict
    printed,         \* the number of diagnostics printed by the current call
    spc,             \* position of get_shop_list_by_dishes: "idle", "loop", "returned", "raised"
    tampered,        \* history: the caller modified a returned shopping list
    \* ---- merge_files ----
    dir_exists,      \* whether the directory argument exists
    entries,         \* the directory: entry name -> [kind, content]
    out_loc,         \* where the output_file argument points
    output,          \* the content of the output file, as a set: empty while it does not exist
    snapshot,        \* history: the directory as it was when the last call started
    files_info,      \* local files_info of the last call, in insertion order
    sorted_files,    \* local sorted_files of the last call
    merged,          \* "none", "ok", or the exception the last call of merge_files raised
    calls            \* the number of calls of merge_files made

pvars == <<source, file_exists, file, pos, pc, dish_name, ingredient_count, todo,
           ingredients, cook_book, exc, outcome, result, starts>>

svars == <<objs, book, book0, person_count, dishes, shop_list, printed, spc, tampered>>

mvars == <<dir_exists, entries, out_loc, output, snapshot, files_info, sorted_files,
           merged, calls>>

vars == <<pvars, svars, mvars>>

notParser == <<svars, mvars>>

notShop == <<pvars, mvars>>

notMerge == <<pvars, svars>>

(***************************************************************************)
(* Text helpers: Python's str.strip, str.split(' | '), int and str.         *)
(***************************************************************************)
Whitespace == {" ", "\t"}

Digits == {"0", "1", "2", "3", "4", "5", "6", "7", "8", "9"}

DigitVal(c) ==
    CASE c = "0" -> 0 [] c = "1" -> 1 [] c = "2" -> 2 [] c = "3" -> 3 [] c = "4" -> 4
      [] c = "5" -> 5 [] c = "6" -> 6 [] c = "7" -> 7 [] c = "8" -> 8 [] c = "9" -> 9

DigitChar(d) ==
    CASE d = 0 -> "0" [] d = 1 -> "1" [] d = 2 -> "2" [] d = 3 -> "3" [] d = 4 -> "4"
      [] d = 5 -> "5" [] d = 6 -> "6" [] d = 7 -> "7" [] d = 8 -> "8" [] d = 9 -> "9"

\* str.strip(): leading and trailing whitespace removed
Strip(s) ==
    LET keep == {i \in 1..Len(s) : s[i] \notin Whitespace}
    IN  IF keep = {} THEN <<>>
        ELSE LET lo == CHOOSE i \in keep : \A j \in keep : i <= j
                 hi == CHOOSE i \in keep : \A j \in keep : j <= i
             IN  SubSeq(s, lo, hi)

Separator == <<" ", "|", " ">>

\* str.split(' | '): the fields between the non-overlapping occurrences of
\* the separator, found left to right
RECURSIVE Split(_)
Split(s) ==
    LET hits == {i \in 1..(Len(s) - 2) : SubSeq(s, i, i + 2) = Separator}
    IN  IF hits = {} THEN <<s>>
        ELSE LET i == CHOOSE h \in hits : \A k \in hits : h <= k
             IN  <<SubSeq(s, 1, i - 1)>> \o Split(SubSeq(s, i + 3, Len(s)))

\* the digits part of an int() literal: sign removed
Unsigned(t) == IF Len(t) > 0 /\ t[1] \in {"+", "-"} THEN Tail(t) ELSE t

\* whether int(s) succeeds: optional surrounding whitespace, optional sign,
\* digits with single underscores between them
IsInt(s) ==
    LET u == Unsigned(Strip(s))
    IN  /\ Len(u) > 0
        /\ u[1] \in Digits
        /\ u[Len(u)] \in Digits
        /\ \A i \in 1..Len(u) : u[i] \in Digits \cup {"_"}
        /\ \A i \in 1..(Len(u) - 1) : ~(u[i] = "_" /\ u[i + 1] = "_")

RECURSIVE DigitsVal(_, _)
DigitsVal(u, acc) ==
    IF u = <<>> THEN acc
    ELSE IF Head(u) = "_" THEN DigitsVal(Tail(u), acc)
    ELSE DigitsVal(Tail(u), 10 * acc + DigitVal(Head(u)))

\* int(s) with the sign dropped
IntValUnsigned(s) == DigitsVal(Unsigned(Strip(s)), 0)

\* int(s), for s with IsInt(s)
IntVal(s) ==
    LET t == Strip(s)
        v == DigitsVal(Unsigned(t), 0)
    IN  IF t[1] = "-" THEN 0 - v ELSE v

RECURSIVE NatStr(_)
NatStr(n) == IF n < 10 THEN <<DigitChar(n)>> ELSE NatStr(n \div 10) \o <<DigitChar(n % 10)>>

\* str(n) of an int
Str(n) == IF n < 0 THEN <<"-">> \o NatStr(0 - n) ELSE NatStr(n)

(***************************************************************************)
(* read_cook_book                                                          *)
(***************************************************************************)
EmptyBook == [d \in {} |-> <<>>]

\* file.readline(): the next line, the empty string at the end of the file
ReadLine(f, p) == IF p <= Len(f) THEN f[p] ELSE <<>>

\* the file position after a readline()
Advance(f, p) == IF p <= Len(f) THEN p + 1 ELSE p

\* line 44 left out: no line is consumed after the ingredient lines
NoSkip(f, p) == p

\* line 44: the separator line is read and dropped
SkipSeparator(f, p) == Advance(f, p)

\* a loop that runs one iteration short
RangeLenShort(n) == IF n > 1 THEN n - 1 ELSE 0

\* the number of iterations of "for _ in range(ingredient_count)"
RangeLen(n) == IF n > 0 THEN n ELSE 0

\* lines 28-37: the ValueError an ingredient line raises, "none" when it parses
IngredientError(line) ==
    IF line = <<>> THEN "missing"
    ELSE IF Len(Split(line)) # 3 THEN "fields"
    ELSE IF ~IsInt(Split(line)[2]) THEN "quantity"
    ELSE "none"

\* lines 33-42: the ingredient of a well-formed ingredient line
ParseIngredient(line) ==
    LET parts == Split(line)
    IN  [ingredient_name |-> parts[1], quantity |-> IntVal(parts[2]), measure |-> parts[3]]

\* line 43: cook_book[dish_name] = ingredients
Store(cb, name, ingrs) ==
    [d \in (DOMAIN cb) \cup {name} |-> IF d = name THEN ingrs ELSE cb[d]]

\* the handlers with the first clause catching every exception
HandledAsNotFound(e) == "FileNotFoundError"

\* lines 45-48: what the outer handlers turn a travelling exception into
Handled(e) == IF e = "FileNotFoundError" THEN "FileNotFoundError" ELSE "ValueError"

\* line 15: open()
Open ==
    /\ pc = "open"
    /\ UNCHANGED notParser
    /\ IF file_exists
         THEN pc' = "dish" /\ exc' = exc
         ELSE pc' = "handler" /\ exc' = "FileNotFoundError"
    /\ UNCHANGED <<source, file_exists, file, pos, dish_name, ingredient_count, todo,
                   ingredients, cook_book, outcome, result, starts>>

\* lines 17-19: the dish-name line; an empty one ends the loop, and line 50 returns
ReadDishName ==
    /\ pc = "dish"
    /\ UNCHANGED notParser
    /\ LET line == Strip(ReadLine(file, pos))
       IN  /\ pos' = Advance(file, pos)
           /\ IF line = <<>>
                THEN /\ pc' = "returned"
                     /\ outcome' = "returned"
                     /\ result' = {cook_book}
                     /\ UNCHANGED <<dish_name, starts>>
                ELSE /\ pc' = "count"
                     /\ dish_name' = line
                     /\ starts' = Append(starts, pos)
                     /\ UNCHANGED <<outcome, result>>
    /\ UNCHANGED <<source, file_exists, file, ingredient_count, todo, ingredients,
                   cook_book, exc>>

\* lines 20-25: the ingredient count
ReadCount ==
    /\ pc = "count"
    /\ UNCHANGED notParser
    /\ LET line == Strip(ReadLine(file, pos))
       IN  /\ pos' = Advance(file, pos)
           /\ IF IsInt(line)
                THEN /\ ingredient_count' = IntVal(line)
                     /\ todo' = RangeLen(IntVal(line))
                     /\ ingredients' = <<>>
                     /\ pc' = IF RangeLen(IntVal(line)) > 0 THEN "ingredient" ELSE "store"
                     /\ exc' = exc
                ELSE /\ pc' = "handler"
                     /\ exc' = "ValueError"
                     /\ UNCHANGED <<ingredient_count, todo, ingredients>>
    /\ UNCHANGED <<source, file_exists, file, dish_name, cook_book, outcome, result, starts>>

\* lines 26-42: one iteration of the ingredient loop
ReadIngredient ==
    /\ pc = "ingredient"
    /\ UNCHANGED notParser
    /\ LET line == Strip(ReadLine(file, pos))
       IN  /\ pos' = Advance(file, pos)
           /\ IF IngredientError(line) = "none"
                THEN /\ ingredients' = Append(ingredients, ParseIngredient(line))
                     /\ todo' = todo - 1
                     /\ pc' = IF todo = 1 THEN "store" ELSE "ingredient"
                     /\ exc' = exc
                ELSE /\ pc' = "handler"
                     /\ exc' = "ValueError"
                     /\ UNCHANGED <<ingredients, todo>>
    /\ UNCHANGED <<source, file_exists, file, dish_name, ingredient_count, cook_book,
                   outcome, result, starts>>

\* lines 43-44: the dish is stored and the separator line consumed
StoreDish ==
    /\ pc = "store"
    /\ UNCHANGED notParser
    /\ cook_book' = Store(cook_book, dish_name, ingredients)
    /\ pos' = SkipSeparator(file, pos)
    /\ pc' = "dish"
    /\ UNCHANGED <<source, file_exists, file, dish_name, ingredient_count, todo,
                   ingredients, exc, outcome, result, starts>>

\* lines 45-48: the exception leaves read_cook_book, nothing is returned
Raise ==
    /\ pc = "handler"
    /\ UNCHANGED notParser
    /\ outcome' = Handled(exc)
    /\ pc' = "raised"
    /\ UNCHANGED <<source, file_exists, file, pos, dish_name, ingredient_count, todo,
                   ingredients, cook_book, exc, result, starts>>

NextParse == Open \/ ReadDishName \/ ReadCount \/ ReadIngredient \/ StoreDish \/ Raise

(***************************************************************************)
(* Recipe files: the serialiser of section 8 of the specification and the  *)
(* inputs of the parser.                                                   *)
(***************************************************************************)
RECURSIVE Flatten(_)
Flatten(ss) == IF ss = <<>> THEN <<>> ELSE Head(ss) \o Flatten(Tail(ss))

\* the sum of f[x] over the x in S
RECURSIVE SumOver(_, _)
SumOver(S, f) ==
    IF S = {} THEN 0
    ELSE LET x == CHOOSE y \in S : TRUE IN f[x] + SumOver(S \ {x}, f)

SeqsUpTo(S, n) == UNION {[1..k -> S] : k \in 0..n}

IngredientLine(g) ==
    g.ingredient_name \o Separator \o Str(g.quantity) \o Separator \o g.measure

\* a dish block: name, count, one line per ingredient, one blank line
Block(r) ==
    <<r.dish_name, Str(Len(r.ingredients))>>
      \o [j \in 1..Len(r.ingredients) |-> IngredientLine(r.ingredients[j])]
      \o << <<>> >>

Serialize(cat) == Flatten([k \in 1..Len(cat) |-> Block(cat[k])])

Ingr(n, q, m) == [ingredient_name |-> n, quantity |-> q, measure |-> m]

Recipe(n, gs) == [dish_name |-> n, ingredients |-> gs]

MaxLines == 4

MaxDishes == 2

MaxIngr == 2

\* the lines an arbitrary recipe file is made of
LinePool ==
    { <<>>,
      <<"A">>,
      <<"0">>,
      <<"1">>,
      <<"-", "1">>,
      <<"a", " ", "|", " ", "2", " ", "|", " ", "g", " ">>,
      <<"a", " ", "|", " ", "-", "2", " ", "|", " ", "g">>,
      <<"a", " ", "|", " ", "x", " ", "|", " ", "g">>,
      <<"a", " ", "|", " ", "2">>,
      <<"a", " ", "|", " ", "2", " ", "|", " ", "g", " ", "|", " ">> }

\* well-formed blocks an arbitrary file may start with
PrefixCatalogs ==
    { <<>>,
      <<Recipe(<<"A">>, <<Ingr(<<"b">>, 1, <<"g">>), Ingr(<<"c">>, 20, <<"k", "g">>)>>)>> }

\* the strings of the catalogs that are serialised and parsed back
RTDishNames == { <<"A">>, <<"B", " ", "c">>, <<" ", "A">> }

RTIngredients ==
    { Ingr(<<"a">>, 12, <<"g">>),
      Ingr(<<"b", "|", "c">>, -1, <<"k", " ", "g">>),
      Ingr(<<"a", " ", "|">>, 0, <<"g">>),
      Ingr(<<"a">>, 3, <<>>),
      Ingr(<<" ", "a">>, 1, <<"g">>),
      Ingr(<<"a">>, 1, <<"g", " ", "|", " ", "h">>) }

\* the ingredient lists of n dishes holding at most budget ingredients in all
RECURSIVE Layouts(_, _)
Layouts(n, budget) ==
    IF n = 0 THEN { <<>> }
    ELSE UNION { { <<gs>> \o rest : rest \in Layouts(n - 1, budget - Len(gs)) } :
                 gs \in SeqsUpTo(RTIngredients, budget) }

\* the catalogs of at most MaxDishes dishes, of unique names, and MaxIngr
\* ingredients in all
RTCatalogs ==
    UNION { { [k \in 1..Len(names) |-> Recipe(names[k], layout[k])] :
                layout \in Layouts(Len(names), MaxIngr) } :
            names \in {ns \in SeqsUpTo(RTDishNames, MaxDishes) :
                          \A i, j \in 1..Len(ns) : ns[i] = ns[j] => i = j} }

ParserStart ==
    /\ pos = 1
    /\ pc = "open"
    /\ dish_name = <<>>
    /\ ingredient_count = 0
    /\ todo = 0
    /\ ingredients = <<>>
    /\ cook_book = EmptyBook
    /\ exc = "none"
    /\ outcome = "none"
    /\ result = {}
    /\ starts = <<>>

\* get_shop_list_by_dishes is not running
ShopIdle ==
    /\ objs = <<>>
    /\ book = <<>>
    /\ book0 = <<>>
    /\ person_count = 0
    /\ dishes = <<>>
    /\ shop_list = <<>>
    /\ printed = 0
    /\ spc = "idle"
    /\ tampered = FALSE

\* merge_files has not been called
MergeIdle ==
    /\ dir_exists = FALSE
    /\ entries = <<>>
    /\ out_loc = "outside"
    /\ output = {}
    /\ snapshot = <<>>
    /\ files_info = <<>>
    /\ sorted_files = <<>>
    /\ merged = "none"
    /\ calls = 0

\* read_cook_book on an arbitrary file, or on a missing one
InitParse ==
    /\ MergeIdle
    /\ ShopIdle
    /\ file_exists \in BOOLEAN
    /\ source \in (IF file_exists THEN PrefixCatalogs ELSE {<<>>})
    /\ file \in (IF file_exists
                   THEN {Serialize(source) \o t : t \in SeqsUpTo(LinePool, MaxLines)}
                   ELSE {<<>>})
    /\ ParserStart

\* read_cook_book on the serialisation of a catalog
InitRoundTrip ==
    /\ MergeIdle
    /\ ShopIdle
    /\ file_exists = TRUE
    /\ source \in RTCatalogs
    /\ file = Serialize(source)
    /\ ParserStart

SpecParse == InitParse /\ [][NextParse]_vars

SpecRoundTrip == InitRoundTrip /\ [][NextParse]_vars

(***************************************************************************)
(* Properties of read_cook_book                                            *)
(***************************************************************************)
Terminated == pc \in {"returned", "raised"}

\* the count line of the block whose dish name is at line s
CountLine(s) == Strip(ReadLine(file, s + 1))

\* the k-th line after the count line of the block at s
IngredientLineAt(s, k) == Strip(ReadLine(file, s + 1 + k))

NonNegative(n) == IF n > 0 THEN n ELSE 0

\* an ingredient line that is missing, has not 3 fields, or a non-integer quantity
Malformed(line) ==
    \/ line = <<>>
    \/ Len(Split(line)) # 3
    \/ ~IsInt(Split(line)[2])

\* a block the parser reached whose declared ingredient lines are not all well-formed
BadIngredientReached ==
    \E k \in 1..Len(starts) :
        /\ IsInt(CountLine(starts[k]))
        /\ \E j \in 1..NonNegative(IntVal(CountLine(starts[k]))) :
              Malformed(IngredientLineAt(starts[k], j))

\* C3: a malformed or missing ingredient line in any block the parser
\* reaches makes read_cook_book end with ValueError and return no catalog,
\* whatever was parsed before it.
C3_BadIngredientFails ==
    (Terminated /\ BadIngredientReached) => (outcome = "ValueError" /\ result = {})

\* a bad ingredient line met after an earlier block was stored
C3_Witness ==
    /\ pc = "raised"
    /\ BadIngredientReached
    /\ cook_book # EmptyBook
    /\ Len(starts) >= 2

\* the catalog a sequence of recipes denotes
AsBook(cat) ==
    [d \in {cat[k].dish_name : k \in 1..Len(cat)} |->
        (CHOOSE r \in {cat[k] : k \in 1..Len(cat)} : r.dish_name = d).ingredients]

RoundTrips == outcome = "returned" /\ result = {AsBook(source)}

\* C7 as stated: every catalog with unique non-empty dish names is parsed
\* back from its serialisation.
C7_Original == Terminated => RoundTrips

\* non-empty, no whitespace at either end
Trimmed(str) ==
    /\ str # <<>>
    /\ str[1] \notin Whitespace
    /\ str[Len(str)] \notin Whitespace

NoSeparator(str) == \A i \in 1..(Len(str) - 2) : SubSeq(str, i, i + 2) # Separator

EndsWithBar(str) == Len(str) >= 2 /\ SubSeq(str, Len(str) - 1, Len(str)) = <<" ", "|">>

\* names and measures the line format can carry
Representable(cat) ==
    \A k \in 1..Len(cat) :
        /\ Trimmed(cat[k].dish_name)
        /\ \A j \in 1..Len(cat[k].ingredients) :
              LET g == cat[k].ingredients[j]
              IN  /\ Trimmed(g.ingredient_name)
                  /\ NoSeparator(g.ingredient_name)
                  /\ ~EndsWithBar(g.ingredient_name)
                  /\ Trimmed(g.measure)
                  /\ NoSeparator(g.measure)

\* C7 (amended): a catalog whose dish names, ingredient names and measures
\* are non-empty and carry no surrounding whitespace, and whose ingredient
\* names and measures hold no " | " (nor an ingredient name a final " |"),
\* is parsed back from its serialisation unchanged.
C7_RoundTrip == (Terminated /\ Representable(source)) => RoundTrips

\* a catalog parsed back: two ingredients in one dish, one of them a
\* negative quantity and a name holding a bar
C7_Witness ==
    /\ outcome = "returned"
    /\ Representable(source)
    /\ \E k \in 1..Len(source) :
          /\ Len(source[k].ingredients) = 2
          /\ source[k].ingredients[1] # source[k].ingredients[2]
          /\ source[k].ingredients[2].quantity < 0

\* the start of the last block the parser read under dish name d
LastStart(d) ==
    LET ks == {k \in 1..Len(starts) : Strip(ReadLine(file, starts[k])) = d}
    IN  starts[CHOOSE k \in ks : \A m \in ks : m <= k]

\* the count declared for dish d
Declared(d) == IntVal(CountLine(LastStart(d)))

\* C8 as stated: every returned quantity is >= 0 and every ingredient list
\* has exactly the declared number of entries.
C8_Original ==
    outcome = "returned" =>
        \A cat \in result : \A d \in DOMAIN cat :
            /\ \A j \in 1..Len(cat[d]) : cat[d][j].quantity >= 0
            /\ Len(cat[d]) = Declared(d)

\* C8 (amended): every returned quantity is an integer, of either sign,
\* and every ingredient list has max(N, 0) entries for the declared N.
C8_IntegerQuantities ==
    outcome = "returned" =>
        \A cat \in result : \A d \in DOMAIN cat :
            /\ \A j \in 1..Len(cat[d]) : cat[d][j].quantity \in Int
            /\ Len(cat[d]) = NonNegative(Declared(d))

C8_Witness ==
    /\ outcome = "returned"
    /\ \E cat \in result : \E d \in DOMAIN cat :
          /\ Len(cat[d]) >= 1
          /\ \E j \in 1..Len(cat[d]) : cat[d][j].quantity < 0

\* the line after the separator of the block at s
NextBlock(s) == s + 2 + NonNegative(IntVal(CountLine(s))) + 1

\* the ingredients written in the block at s
BlockIngredients(s) ==
    [j \in 1..NonNegative(IntVal(CountLine(s))) |->
        LET parts == Split(IngredientLineAt(s, j))
        IN  Ingr(parts[1], IntVal(parts[2]), parts[3])]

\* C9: exactly one line is consumed after the ingredient lines of a block,
\* so each dish name is read right after the previous block's separator;
\* and a run over an existing file ends either with ValueError or with a
\* catalog holding every block before the first empty dish-name line, a
\* later block of the same name replacing an earlier one.
C9_SeparatorConsumed ==
    /\ \A k \in 1..(Len(starts) - 1) : starts[k + 1] = NextBlock(starts[k])
    /\ (Terminated /\ file_exists) =>
          \/ outcome = "ValueError"
          \/ /\ outcome = "returned"
             /\ Strip(ReadLine(file, IF starts = <<>> THEN 1
                                     ELSE NextBlock(starts[Len(starts)]))) = <<>>
             /\ \A cat \in result :
                   /\ DOMAIN cat = {Strip(ReadLine(file, starts[k])) : k \in 1..Len(starts)}
                   /\ \A d \in DOMAIN cat : cat[d] = BlockIngredients(LastStart(d))

\* two blocks of the same dish parsed, the second one read after the
\* separator of the first and replacing it
C9_Witness ==
    /\ outcome = "returned"
    /\ Len(starts) >= 2
    /\ Strip(ReadLine(file, starts[1])) = Strip(ReadLine(file, starts[2]))
    /\ BlockIngredients(starts[1]) # BlockIngredients(starts[2])

(***************************************************************************)
(* get_shop_list_by_dishes.  The catalog's ingredient dicts and the        *)
(* shopping list's entry dicts are objects on a heap, so that sharing      *)
(* between the catalog and a returned list is expressible.                 *)
(***************************************************************************)
MaxCatalogSize == 2

MaxRequest == 2

KnownDishes == {"A", "B"}

RequestedDishes == {"A", "B", "C"}

PersonCounts == {-1, 0, 2}

ShopIngredients ==
    { Ingr("salt", 2, "g"), Ingr("salt", 3, "kg"), Ingr("egg", 1, "pcs") }

\* references: the j-th ingredient dict of a dish, the dict created for an entry
CatRef(d, j) == <<"catalog", d, j>>

NewRef(name) == <<"entry", name, 0>>

Extend(f, k, v) == [x \in (DOMAIN f) \cup {k} |-> IF x = k THEN v ELSE f[x]]

\* a catalog given by value, laid out on the heap
HeapOf(cat) ==
    [r \in UNION {{CatRef(d, j) : j \in 1..Len(cat[d])} : d \in DOMAIN cat} |-> cat[r[2]][r[3]]]

RefsOf(cat) == [d \in DOMAIN cat |-> [j \in 1..Len(cat[d]) |-> CatRef(d, j)]]

\* AddIngredient with "=" for "+=": a repeated name keeps its last quantity
AddIngredientOverwrite(st, ref, n) ==
    LET ingredient_name == st.objs[ref].ingredient_name
        quantity == st.objs[ref].quantity * n
        measure == st.objs[ref].measure
    IN  IF ingredient_name \in DOMAIN st.shop_list
          THEN [st EXCEPT !.objs[st.shop_list[ingredient_name]].quantity = quantity]
          ELSE [st EXCEPT
                  !.objs = Extend(@, NewRef(ingredient_name),
                                  [measure |-> measure, quantity |-> quantity]),
                  !.shop_list = Extend(@, ingredient_name, NewRef(ingredient_name))]

\* AddIngredient storing the catalog's own dict in the shopping list
AddIngredientAliased(st, ref, n) ==
    LET ingredient_name == st.objs[ref].ingredient_name
        quantity == st.objs[ref].quantity * n
    IN  IF ingredient_name \in DOMAIN st.shop_list
          THEN [st EXCEPT !.objs[st.shop_list[ingredient_name]].quantity = @ + quantity]
          ELSE [st EXCEPT !.shop_list = Extend(@, ingredient_name, ref)]

\* lines 67-73: one ingredient of a found dish is merged into the shopping list
AddIngredient(st, ref, n) ==
    LET ingredient_name == st.objs[ref].ingredient_name
        quantity == st.objs[ref].quantity * n
        measure == st.objs[ref].measure
    IN  IF ingredient_name \in DOMAIN st.shop_list
          THEN [st EXCEPT !.objs[st.shop_list[ingredient_name]].quantity = @ + quantity]
          ELSE [st EXCEPT
                  !.objs = Extend(@, NewRef(ingredient_name),
                                  [measure |-> measure, quantity |-> quantity]),
                  !.shop_list = Extend(@, ingredient_name, NewRef(ingredient_name))]

\* line 66: the loop over the ingredients of a found dish
RECURSIVE AddDish(_, _, _)
AddDish(st, refs, n) ==
    IF refs = <<>> THEN st
    ELSE AddDish(AddIngredient(st, Head(refs), n), Tail(refs), n)

\* SkipMissing without the membership test's "continue": the lookup fails
RaiseOnMissing(st) == [st EXCEPT !.spc = "raised"]

\* lines 63-65: an absent dish is reported and skipped
SkipMissing(st) == [st EXCEPT !.printed = @ + 1]

\* lines 62-73: one iteration of the loop over dishes
DishStep(st, cb, dish, n) ==
    IF dish \notin DOMAIN cb THEN SkipMissing(st) ELSE AddDish(st, cb[dish], n)

\* lines 61-74: the whole loop over a list of dishes
RECURSIVE Aggregate(_, _, _, _)
Aggregate(st, cb, ds, n) ==
    IF ds = <<>> THEN st
    ELSE Aggregate(DishStep(st, cb, Head(ds), n), cb, Tail(ds), n)

Running == [objs |-> objs, shop_list |-> shop_list, printed |-> printed, spc |-> spc]

\* line 61: a call starts with an empty shopping list; the dicts of earlier
\* shopping lists are no part of it
Call(n) ==
    /\ spc \in {"idle", "returned"}
    /\ UNCHANGED notShop
    /\ person_count' = n
    /\ dishes' = <<>>
    /\ shop_list' = <<>>
    /\ printed' = 0
    /\ objs' = [r \in {x \in DOMAIN objs : x[1] = "catalog"} |-> objs[r]]
    /\ spc' = "loop"
    /\ UNCHANGED <<book, book0, tampered>>

\* lines 62-73: the loop takes the next element of dishes
NextDish(dish) ==
    /\ spc = "loop"
    /\ UNCHANGED notShop
    /\ Len(dishes) < MaxRequest
    /\ dishes' = Append(dishes, dish)
    /\ LET st == DishStep(Running, book, dish, person_count)
       IN  /\ objs' = st.objs
           /\ shop_list' = st.shop_list
           /\ printed' = st.printed
           /\ spc' = st.spc
    /\ UNCHANGED <<book, book0, person_count, tampered>>

\* line 74: dishes is exhausted
Return ==
    /\ spc = "loop"
    /\ UNCHANGED notShop
    /\ spc' = "returned"
    /\ UNCHANGED <<objs, book, book0, person_count, dishes, shop_list, printed, tampered>>

Tamper(q) == q + 1000

Modified(q) == q >= 500

\* the caller changes a quantity in the shopping list it was given
ModifyReturned(name) ==
    /\ spc = "returned"
    /\ UNCHANGED notShop
    /\ name \in DOMAIN shop_list
    /\ ~Modified(objs[shop_list[name]].quantity)
    /\ objs' = [objs EXCEPT ![shop_list[name]].quantity = Tamper(@)]
    /\ tampered' = TRUE
    /\ UNCHANGED <<book, book0, person_count, dishes, shop_list, printed, spc>>

ParserIdle ==
    /\ source = <<>>
    /\ file_exists = FALSE
    /\ file = <<>>
    /\ ParserStart

\* the catalogs of at most MaxCatalogSize ingredient dicts in all
ShopCatalogs ==
    { cat \in [KnownDishes -> SeqsUpTo(ShopIngredients, MaxCatalogSize)] :
        SumOver(KnownDishes, [d \in KnownDishes |-> Len(cat[d])]) <= MaxCatalogSize }

InitShop ==
    /\ ParserIdle
    /\ MergeIdle
    /\ book0 \in ShopCatalogs
    /\ objs = HeapOf(book0)
    /\ book = RefsOf(book0)
    /\ person_count = 0
    /\ dishes = <<>>
    /\ shop_list = <<>>
    /\ printed = 0
    /\ spc = "idle"
    /\ tampered = FALSE

NextShop ==
    \/ \E n \in PersonCounts : Call(n)
    \/ \E dish \in RequestedDishes : NextDish(dish)
    \/ Return
    \/ \E name \in {g.ingredient_name : g \in ShopIngredients} : ModifyReturned(name)

SpecShop == InitShop /\ [][NextShop]_vars

(***************************************************************************)
(* Properties of get_shop_list_by_dishes                                   *)
(***************************************************************************)
\* a shopping list by value
View(st) ==
    [name \in DOMAIN st.shop_list |->
        [quantity |-> st.objs[st.shop_list[name]].quantity,
         measure |-> st.objs[st.shop_list[name]].measure]]

\* the call has returned and the caller has not touched the list
JustReturned ==
    /\ spc = "returned"
    /\ \A name \in DOMAIN shop_list : ~Modified(objs[shop_list[name]].quantity)

\* the occurrences <<i, j>> of an ingredient name: requested dish i is in the
\* catalog and its j-th ingredient has that name
Occurrences(name) ==
    UNION { { <<i, j>> : j \in {k \in 1..Len(book0[dishes[i]]) :
                                  book0[dishes[i]][k].ingredient_name = name} } :
            i \in {k \in 1..Len(dishes) : dishes[k] \in DOMAIN book0} }

RequestedNames ==
    UNION { {book0[dishes[i]][j].ingredient_name : j \in 1..Len(book0[dishes[i]])} :
            i \in {k \in 1..Len(dishes) : dishes[k] \in DOMAIN book0} }

\* C1: the returned keys are exactly the ingredient names of the requested
\* dishes found in the catalog, and each quantity is the sum over the
\* occurrences of that name of quantity * person_count.
C1_SumOfScaledQuantities ==
    JustReturned =>
        /\ DOMAIN shop_list = RequestedNames
        /\ \A name \in DOMAIN shop_list :
              View(Running)[name].quantity =
                  SumOver(Occurrences(name),
                          [o \in Occurrences(name) |->
                              book0[dishes[o[1]]][o[2]].quantity * person_count])

\* the example of the specification: salt 2 g in A, salt 3 kg in B, 2 persons
C1_Witness ==
    /\ JustReturned
    /\ dishes = <<"A", "B">>
    /\ person_count = 2
    /\ "salt" \in DOMAIN shop_list
    /\ View(Running)["salt"].quantity = 10
    /\ Cardinality(Occurrences("salt")) = 2

\* get_shop_list_by_dishes on a fresh copy of the catalog
FreshRun(ds, n) ==
    Aggregate([objs |-> HeapOf(book0), shop_list |-> <<>>, printed |-> 0, spc |-> "loop"],
              RefsOf(book0), ds, n)

Found(d) == d \in DOMAIN book0

\* C2: an absent dish name never makes the call fail, each absent
\* occurrence prints one diagnostic, and the result is the one of the
\* request with the absent names removed.
C2_AbsentDishSkipped ==
    /\ spc # "raised"
    /\ printed = Cardinality({i \in 1..Len(dishes) : ~Found(dishes[i])})
    /\ JustReturned =>
          View(Running) = View(FreshRun(SelectSeq(dishes, Found), person_count))

\* an absent name first, a found dish after it
C2_Witness ==
    /\ JustReturned
    /\ Len(dishes) = 2
    /\ ~Found(dishes[1])
    /\ Found(dishes[2])
    /\ printed = 1
    /\ shop_list # <<>>

\* the catalog by value, as the heap holds it now
CatalogNow == [d \in DOMAIN book |-> [j \in 1..Len(book[d]) |-> objs[book[d][j]]]]

\* C10: the catalog is never changed, and every call returns what the same
\* call returns on a fresh copy of the catalog, whatever was called before
\* and whatever the caller did to the lists returned before.
C10_NoStateAcrossCalls ==
    /\ CatalogNow = book0
    /\ JustReturned => View(Running) = View(FreshRun(dishes, person_count))

\* a call that added to an existing entry, made after the caller changed an
\* earlier result
C10_Witness ==
    /\ JustReturned
    /\ tampered
    /\ \E name \in DOMAIN shop_list : Cardinality(Occurrences(name)) >= 2

(***************************************************************************)
(* merge_files.  File contents are sequences of characters; "\n" ends a    *)
(* line.                                                                   *)
(***************************************************************************)
MaxContent == 2

MaxCalls == 2

NL == "\n"

\* the entry names of the directory; OutName is the output file when the
\* output path lies inside the directory
FileNames == { <<"p">>, <<"q">> }

SubdirName == <<"s">>

OutName == <<"m">>

Contents == SeqsUpTo({"a", NL}, MaxContent)

RegularFile(c) == [kind |-> "file", content |-> c]

\* a regular file that open() refuses to read
DeniedFile == [kind |-> "denied", content |-> <<>>]

Subdirectory == [kind |-> "dir", content |-> <<>>]

\* os.listdir: the entry names in any order
Listings(dir) ==
    { o \in [1..Cardinality(DOMAIN dir) -> DOMAIN dir] :
        \A i, j \in DOMAIN o : o[i] = o[j] => i = j }

\* file.readlines(): the lines of a content, each with its terminator
RECURSIVE ReadLines(_)
ReadLines(c) ==
    LET ends == {i \in 1..Len(c) : c[i] = NL}
    IN  IF c = <<>> THEN <<>>
        ELSE IF ends = {} THEN <<c>>
        ELSE LET i == CHOOSE e \in ends : \A k \in ends : e <= k
             IN  <<SubSeq(c, 1, i)>> \o ReadLines(SubSeq(c, i + 1, Len(c)))

\* lines 86-92: files_info after the names in order were visited, or the
\* exception open() raised
RECURSIVE ReadAll(_, _, _)
ReadAll(dir, order, info) ==
    IF order = <<>> THEN [error |-> "none", info |-> info]
    ELSE LET filename == Head(order)
         IN  IF dir[filename].kind = "dir" THEN ReadAll(dir, Tail(order), info)
             ELSE IF dir[filename].kind = "denied"
               THEN [error |-> "PermissionError", info |-> <<>>]
             ELSE ReadAll(dir, Tail(order),
                          Append(info, [filename |-> filename,
                                        lines |-> ReadLines(dir[filename].content)]))

\* where a record goes in a sequence sorted by line count: behind every
\* record that has no more lines than it
RECURSIVE InsertByLineCount(_, _)
InsertByLineCount(sorted, r) ==
    IF sorted = <<>> THEN <<r>>
    ELSE IF Len(Head(sorted).lines) <= Len(r.lines)
      THEN <<Head(sorted)>> \o InsertByLineCount(Tail(sorted), r)
    ELSE <<r>> \o sorted

RECURSIVE SortFrom(_, _)
SortFrom(done, rest) ==
    IF rest = <<>> THEN done
    ELSE SortFrom(InsertByLineCount(done, Head(rest)), Tail(rest))

\* files_info as it is: no sorting
Unsorted(info) == info

\* line 94: sorted(files_info.items(), key=lambda x: len(x[1])), a stable sort
SortByLineCount(info) == SortFrom(<<>>, info)

\* lines 97-100: what is written for the records
Written(records) ==
    Flatten([k \in 1..Len(records) |->
        records[k].filename \o <<NL>> \o Str(Len(records[k].lines)) \o <<NL>>
          \o Flatten(records[k].lines)])

\* line 96: the exception open(output_file, 'w') raises, "none" when it opens
OpenOutput(loc) ==
    CASE loc = "noparent" -> "FileNotFoundError"
      [] loc = "isdir" -> "IsADirectoryError"
      [] OTHER -> "none"

\* lines 101-104: what the handlers turn an exception into
MergeHandled(e) == IF e = "FileNotFoundError" THEN "FileNotFoundError" ELSE "ValueError"

\* lines 84-104: one call of merge_files(directory, output_file)
Merge ==
    /\ UNCHANGED notMerge
    /\ calls < MaxCalls
    /\ calls' = calls + 1
    /\ snapshot' = entries
    /\ UNCHANGED <<dir_exists, out_loc>>
    /\ \E order \in Listings(entries) :
         LET read == ReadAll(entries, order, <<>>)
             raised == IF ~dir_exists THEN "FileNotFoundError"
                       ELSE IF read.error # "none" THEN read.error
                       ELSE OpenOutput(out_loc)
             records == SortByLineCount(read.info)
         IN  IF raised = "none"
               THEN /\ merged' = "ok"
                    /\ files_info' = read.info
                    /\ sorted_files' = records
                    /\ output' = {Written(records)}
                    /\ entries' = IF out_loc = "inside"
                                    THEN Extend(entries, OutName, RegularFile(Written(records)))
                                    ELSE entries
               ELSE /\ merged' = MergeHandled(raised)
                    /\ files_info' = <<>>
                    /\ sorted_files' = <<>>
                    /\ UNCHANGED <<output, entries>>

Directories ==
    { dir \in UNION { [P -> {RegularFile(c) : c \in Contents} \cup {DeniedFile, Subdirectory}] :
                        P \in SUBSET (FileNames \cup {SubdirName}) } :
        \A name \in DOMAIN dir : (name = SubdirName) <=> (dir[name].kind = "dir") }

InitMerge ==
    /\ ParserIdle
    /\ ShopIdle
    /\ dir_exists \in BOOLEAN
    /\ entries \in (IF dir_exists THEN Directories ELSE {<<>>})
    /\ out_loc \in {"inside", "outside", "noparent", "isdir"}
    /\ output = {}
    /\ snapshot = <<>>
    /\ files_info = <<>>
    /\ sorted_files = <<>>
    /\ merged = "none"
    /\ calls = 0

NextMerge == Merge

SpecMerge == InitMerge /\ [][NextMerge]_vars

(***************************************************************************)
(* Properties of merge_files                                               *)
(***************************************************************************)
\* C4: merge_files raises FileNotFoundError exactly when the directory does
\* not exist; every other failure is the wrapping ValueError.
C4_NotFoundIffDirectoryMissing ==
    calls > 0 => (merged = "FileNotFoundError" <=> ~dir_exists)

\* the regular files of a directory
RegularIn(dir) == {name \in DOMAIN dir : dir[name].kind # "dir"}

RecordNames(records) == {records[k].filename : k \in 1..Len(records)}

\* C5: with the output inside the directory, every successful call writes
\* exactly one record per original input file and none for the output file.
C5_OutputNotReadBack ==
    (out_loc = "inside" /\ merged = "ok") =>
        /\ OutName \notin RecordNames(sorted_files)
        /\ RecordNames(sorted_files) = RegularIn(entries) \ {OutName}
        /\ Len(sorted_files) = Cardinality(RegularIn(entries) \ {OutName})

\* lines is content cut after each line terminator
SplitsIntoLines(content, lines) ==
    /\ Flatten(lines) = content
    /\ \A k \in 1..Len(lines) :
          /\ lines[k] # <<>>
          /\ \A i \in 1..(Len(lines[k]) - 1) : lines[k][i] # NL
          /\ k < Len(lines) => lines[k][Len(lines[k])] = NL

\* the place of a file in the enumeration of the directory
Place(name) == CHOOSE k \in 1..Len(files_info) : files_info[k].filename = name

\* C6: a successful call writes one record for every regular file of the
\* directory, each once, in ascending order of line count, files of equal
\* line count in enumeration order; a record is the filename line, the
\* line-count line and the file's lines as they are.
C6_RecordsSortedByLineCount ==
    merged = "ok" =>
        /\ RecordNames(files_info) = RegularIn(snapshot)
        /\ RecordNames(sorted_files) = RegularIn(snapshot)
        /\ Len(sorted_files) = Cardinality(RegularIn(snapshot))
        /\ \A k \in 1..Len(sorted_files) :
              SplitsIntoLines(snapshot[sorted_files[k].filename].content,
                              sorted_files[k].lines)
        /\ \A i, j \in 1..Len(sorted_files) :
              i < j =>
                /\ Len(sorted_files[i].lines) <= Len(sorted_files[j].lines)
                /\ Len(sorted_files[i].lines) = Len(sorted_files[j].lines)
                     => Place(sorted_files[i].filename) < Place(sorted_files[j].filename)
        /\ output =
             { Flatten([k \in 1..Len(sorted_files) |->
                 sorted_files[k].filename \o <<NL>>
                   \o Str(Len(sorted_files[k].lines)) \o <<NL>>
                   \o snapshot[sorted_files[k].filename].content]) }

\* three files enumerated in descending order of line count, written in
\* ascending order
C6_Witness ==
    /\ merged = "ok"
    /\ Len(sorted_files) = 3
    /\ \A i \in 1..2 : Len(sorted_files[i].lines) < Len(sorted_files[i + 1].lines)
    /\ \A i \in 1..3 : files_info[i] = sorted_files[4 - i]

====
